---- MODULE Spec2Model ----
(***************************************************************************)
(* Log-file analysis script (assignment_03.py) and its colour helper       *)
(* (helpers/log_level_colorize.py).                                        *)
(*                                                                         *)
(* A run of main() is modelled step by step: validate_path, the            *)
(* line-by-line list comprehension of load_logs inside its `with` block,   *)
(* count_logs_by_level, display_log_counts, the optional filter branch of  *)
(* process_logs, the except clauses of main and the return of main.        *)
(* Text is a sequence of one-character strings, so that split, strip and   *)
(* upper are computed character by character.                              *)
(***************************************************************************)
EXTENDS Integers, Sequences, FiniteSets

VARIABLES
    path_kind,      \* what args.file_path names: "missing", "dir" or "file"
    file_lines,     \* the raw lines of the file, as iteration over it yields them
    args_level,     \* args.level: None or a string
    pc,             \* position of the run inside main / process_logs / load_logs
    file_open,      \* the file handle of load_logs is open
    cursor,         \* number of lines the comprehension has consumed
    acc,            \* the list the comprehension of load_logs is building
    logs_list,      \* process_logs: logs_list (bound once load_logs returned)
    loaded,         \* logs_list is bound
    counts,         \* process_logs: counts, a dict as a sequence of <<key, value>>
    level,          \* process_logs: the local `level`
    filtered_logs,  \* process_logs: filtered_logs
    stdout,         \* everything printed, in order
    err,            \* the exception in flight or caught, NoError when none
    exit_status     \* <<>> while running, <<code>> once the interpreter exited

vars == <<path_kind, file_lines, args_level, pc, file_open, cursor, acc,
          logs_list, loaded, counts, level, filtered_logs, stdout, err,
          exit_status>>

----------------------------------------------------------------------------
(* Bounds *)

MaxLines == 3

----------------------------------------------------------------------------
(* Text *)

SP == " "
NL == "\n"

Whitespace == {SP, NL, "\t"}

LowerLetters == <<"a","b","c","d","e","f","g","h","i","j","k","l","m",
                  "n","o","p","q","r","s","t","u","v","w","x","y","z">>
UpperLetters == <<"A","B","C","D","E","F","G","H","I","J","K","L","M",
                  "N","O","P","Q","R","S","T","U","V","W","X","Y","Z">>

upper_char(c) ==
    IF \E i \in DOMAIN LowerLetters : LowerLetters[i] = c
    THEN UpperLetters[CHOOSE i \in DOMAIN LowerLetters : LowerLetters[i] = c]
    ELSE c

\* str.upper()
upper(s) == [i \in 1..Len(s) |-> upper_char(s[i])]

RECURSIVE lstrip(_)
lstrip(s) ==
    IF s # <<>> /\ Head(s) \in Whitespace THEN lstrip(Tail(s)) ELSE s

RECURSIVE rstrip(_)
rstrip(s) ==
    IF s # <<>> /\ s[Len(s)] \in Whitespace
    THEN rstrip(SubSeq(s, 1, Len(s) - 1))
    ELSE s

\* str.strip()
strip(s) == rstrip(lstrip(s))

\* str.split(" ", maxsplit): cut at each single space, left to right, at
\* most maxsplit times (a negative maxsplit never stops); empty pieces are kept.
RECURSIVE split(_, _)
split(s, maxsplit) ==
    IF maxsplit = 0 \/ \A i \in DOMAIN s : s[i] # SP
    THEN <<s>>
    ELSE LET i == CHOOSE k \in DOMAIN s :
                      s[k] = SP /\ \A j \in 1..(k - 1) : s[j] # SP
         IN  <<SubSeq(s, 1, i - 1)>> \o split(SubSeq(s, i + 1, Len(s)), maxsplit - 1)

----------------------------------------------------------------------------
(* Exceptions *)

NoError == [type |-> "None", args |-> <<>>]

None == [some |-> FALSE, s |-> <<>>]
Some(s) == [some |-> TRUE, s |-> s]

\* Truth value of an optional string: None and "" are both falsy.
truthy(v) == v.some /\ v.s # <<>>

----------------------------------------------------------------------------
(* parse_log_line *)

\* Variant: the exception also carries the line.
parse_error_with_line(line) ==
    [type |-> "ValueError",
     args |-> <<"Incorrect log line format, expected at least three spaces to separate the components.", line>>]

\* The exception parse_log_line raises for `line`.
parse_error(line) ==
    [type |-> "ValueError",
     args |-> <<"Incorrect log line format, expected at least three spaces to separate the components.">>]

\* parse_log_line raises on `line`.
parse_raises(line) == Len(split(line, 3)) < 4

\* Variant: an unbounded split, every space separates.
parse_log_line_full_split(line) ==
    LET parts == split(line, -1)
    IN  [date |-> parts[1], time |-> parts[2], log_level |-> parts[3], msg |-> parts[4]]

\* The dict parse_log_line returns when it does not raise.
parse_log_line(line) ==
    LET parts == split(line, 3)
    IN  [date |-> parts[1], time |-> parts[2], log_level |-> parts[3], msg |-> parts[4]]

----------------------------------------------------------------------------
(* filter_logs_by_level, count_logs_by_level *)

\* Variant: the stored level is upper-cased before the comparison.
RECURSIVE filter_logs_by_level_folding(_, _)
filter_logs_by_level_folding(logs, lv) ==
    IF logs = <<>> THEN <<>>
    ELSE (IF upper(Head(logs).log_level) = lv THEN <<Head(logs)>> ELSE <<>>)
         \o filter_logs_by_level_folding(Tail(logs), lv)

\* filter(lambda log: log["log_level"] == level, logs)
RECURSIVE filter_logs_by_level(_, _)
filter_logs_by_level(logs, lv) ==
    IF logs = <<>> THEN <<>>
    ELSE (IF Head(logs).log_level = lv THEN <<Head(logs)>> ELSE <<>>)
         \o filter_logs_by_level(Tail(logs), lv)

\* Counter.update for one element: increment an existing key in place,
\* append a new key with count 1 (dict insertion order).
counter_add(c, key) ==
    IF \E i \in DOMAIN c : c[i][1] = key
    THEN [i \in DOMAIN c |-> IF c[i][1] = key THEN <<key, c[i][2] + 1>> ELSE c[i]]
    ELSE Append(c, <<key, 1>>)

RECURSIVE counter_of(_)
counter_of(keys) ==
    IF keys = <<>> THEN <<>>
    ELSE counter_add(counter_of(SubSeq(keys, 1, Len(keys) - 1)), keys[Len(keys)])

\* Variant: keys are case-folded.
count_logs_by_level_folding(logs) ==
    counter_of([i \in DOMAIN logs |-> upper(logs[i].log_level)])

\* dict(Counter([log["log_level"] for log in logs]))
count_logs_by_level(logs) ==
    counter_of([i \in DOMAIN logs |-> logs[i].log_level])

----------------------------------------------------------------------------
(* helpers/log_level_colorize.py *)

INFO    == <<"I","N","F","O">>
DEBUG   == <<"D","E","B","U","G">>
ERROR   == <<"E","R","R","O","R">>
WARNING == <<"W","A","R","N","I","N","G">>
DEFAULT == <<"D","E","F","A","U","L","T">>

\* colorama.Fore attributes the script can name.
Fore == [CYAN |-> "Fore.CYAN", BLUE |-> "Fore.BLUE", RED |-> "Fore.RED",
         YELLOW |-> "Fore.YELLOW", WHITE |-> "Fore.WHITE"]

\* get_color: getattr(Fore, color.upper(), Fore.WHITE); the returned closure
\* is identified by the colour code it wraps a message in.
get_color(color) ==
    LET name == CASE color = "cyan"   -> "CYAN"
                  [] color = "blue"   -> "BLUE"
                  [] color = "red"    -> "RED"
                  [] color = "yellow" -> "YELLOW"
                  [] color = "white"  -> "WHITE"
                  [] OTHER            -> "?"
    IN  IF name \in DOMAIN Fore THEN Fore[name] ELSE Fore.WHITE

log_colors ==
    <<  <<INFO,    get_color("cyan")>>,
        <<DEBUG,   get_color("blue")>>,
        <<ERROR,   get_color("red")>>,
        <<WARNING, get_color("yellow")>>,
        <<DEFAULT, get_color("white")>>  >>

\* dict.get(key, default)
dict_get(d, key, default) ==
    IF \E i \in DOMAIN d : d[i][1] = key
    THEN d[CHOOSE i \in DOMAIN d : d[i][1] = key][2]
    ELSE default

\* Variant: a case-insensitive lookup.
colorize_folding(key) ==
    dict_get(log_colors, upper(key), dict_get(log_colors, DEFAULT, "KeyError"))

\* log_colors.get(key, log_colors['DEFAULT'])
colorize(key) ==
    dict_get(log_colors, key, dict_get(log_colors, DEFAULT, "KeyError"))

\* get_color.apply_color: f"{color_code}{Style.BRIGHT}{msg}{Style.RESET_ALL}";
\* each escape sequence is one element of the resulting text.
apply_color(color_code, msg) ==
    <<color_code, "Style.BRIGHT">> \o msg \o <<"Style.RESET_ALL">>

----------------------------------------------------------------------------
(* Inputs *)

d_tok == <<"d">>
t_tok == <<"t">>
m_tok == <<"m">>

lower_info  == <<"i","n","f","o">>
lower_error == <<"e","r","r","o","r">>

\* "<date> <time> <LEVEL> <message>\n"
log_line(d, t, L, m) == d \o <<SP>> \o t \o <<SP>> \o L \o <<SP>> \o m \o <<NL>>

\* Levels written in the file with the plain message "m".
FileLevels == {INFO, lower_info, ERROR, lower_error}

RawLines ==
    { log_line(d_tok, t_tok, L, m_tok) : L \in FileLevels }
    \cup { log_line(d_tok, t_tok, DEBUG, <<"m", SP, "x", SP, SP, "y">>),  \* spaces inside the message
           log_line(d_tok, <<>>, WARNING, m_tok),                        \* two spaces in a row
           <<SP>> \o log_line(<<>>, t_tok, ERROR, <<"m", SP, "x">>),      \* indented line
           d_tok \o <<SP>> \o t_tok \o <<SP>> \o INFO \o <<SP, NL>>,      \* third space is trailing
           d_tok \o <<SP>> \o t_tok \o <<SP>> \o ERROR \o <<NL>>,         \* no message
           <<NL>> }                                                      \* blank line

ArgLevels ==
    { None, Some(<<>>), Some(lower_error), Some(ERROR), Some(<<"I","n","f","o">>),
      Some(<<"w","a","r","n","i","n","g">>), Some(<<"x">>) }

Files == UNION { [1..k -> RawLines] : k \in 0..MaxLines }

----------------------------------------------------------------------------
(* State machine *)

Init ==
    /\ path_kind \in {"missing", "dir", "file"}
    /\ file_lines \in Files
    /\ (path_kind # "file" => file_lines = <<>>)
    /\ args_level \in ArgLevels
    /\ pc = "validate_path"
    /\ file_open = FALSE
    /\ cursor = 0
    /\ acc = <<>>
    /\ logs_list = <<>>
    /\ loaded = FALSE
    /\ counts = <<>>
    /\ level = args_level
    /\ filtered_logs = <<>>
    /\ stdout = <<>>
    /\ err = NoError
    /\ exit_status = <<>>

RECURSIVE st_size(_)
st_size(lines) ==
    IF lines = <<>> THEN 0 ELSE Len(Head(lines)) + st_size(Tail(lines))

\* Variant: no size check.
validate_path_accepting_empty(kind, lines) ==
    IF kind = "missing"
    THEN [type |-> "FileNotFoundError", args |-> <<"[Errno 2] No such file or directory">>]
    ELSE IF kind # "file"
    THEN [type |-> "FileNotFoundError", args |-> <<"The path is not a file.">>]
    ELSE NoError

\* validate_path: the exception it raises, NoError when it returns the path.
validate_path(kind, lines) ==
    IF kind = "missing"
    THEN [type |-> "FileNotFoundError", args |-> <<"[Errno 2] No such file or directory">>]
    ELSE IF kind # "file"
    THEN [type |-> "FileNotFoundError", args |-> <<"The path is not a file.">>]
    ELSE IF st_size(lines) = 0
    THEN [type |-> "ValueError", args |-> <<"The file is empty.">>]
    ELSE NoError

\* main: file_path = validate_path(args.file_path)
ValidatePath ==
    /\ pc = "validate_path"
    /\ err' = validate_path(path_kind, file_lines)
    /\ pc' = IF err' = NoError THEN "open" ELSE "except"
    /\ UNCHANGED <<path_kind, file_lines, args_level, file_open, cursor, acc,
                   logs_list, loaded, counts, level, filtered_logs, stdout,
                   exit_status>>

\* load_logs: with open(file_path, 'r', encoding="utf-8") as file
OpenFile ==
    /\ pc = "open"
    /\ file_open' = TRUE
    /\ cursor' = 0
    /\ acc' = <<>>
    /\ pc' = "read"
    /\ UNCHANGED <<path_kind, file_lines, args_level, logs_list, loaded, counts,
                   level, filtered_logs, stdout, err, exit_status>>

\* Variant: a malformed line is skipped instead of aborting the load.
ReadLineSkippingMalformed ==
    /\ pc = "read"
    /\ cursor < Len(file_lines)
    /\ LET line == strip(file_lines[cursor + 1])
       IN  /\ cursor' = cursor + 1
           /\ acc' = IF parse_raises(line) THEN acc ELSE Append(acc, parse_log_line(line))
           /\ UNCHANGED <<err, file_open, pc>>
    /\ UNCHANGED <<path_kind, file_lines, args_level, logs_list, loaded, counts,
                   level, filtered_logs, stdout, exit_status>>

\* load_logs: one iteration of [parse_log_line(line.strip()) for line in file].
\* An exception leaves the `with` block, which closes the file, and the
\* list under construction is dropped.
ReadLine ==
    /\ pc = "read"
    /\ cursor < Len(file_lines)
    /\ LET line == strip(file_lines[cursor + 1])
       IN  /\ cursor' = cursor + 1
           /\ IF parse_raises(line)
              THEN /\ err' = parse_error(line)
                   /\ acc' = <<>>
                   /\ file_open' = FALSE
                   /\ pc' = "except"
              ELSE /\ acc' = Append(acc, parse_log_line(line))
                   /\ UNCHANGED <<err, file_open, pc>>
    /\ UNCHANGED <<path_kind, file_lines, args_level, logs_list, loaded, counts,
                   level, filtered_logs, stdout, exit_status>>

\* Variant: the file is opened without a `with` block and never closed.
CloseFileLeavingItOpen ==
    /\ pc = "read"
    /\ cursor = Len(file_lines)
    /\ logs_list' = acc
    /\ loaded' = TRUE
    /\ pc' = "count"
    /\ UNCHANGED <<path_kind, file_lines, args_level, file_open, cursor, acc, counts,
                   level, filtered_logs, stdout, err, exit_status>>

\* load_logs: the comprehension is exhausted, the `with` block closes the
\* file and the list is returned to process_logs (logs_list = load_logs(path)).
CloseFile ==
    /\ pc = "read"
    /\ cursor = Len(file_lines)
    /\ file_open' = FALSE
    /\ logs_list' = acc
    /\ loaded' = TRUE
    /\ pc' = "count"
    /\ UNCHANGED <<path_kind, file_lines, args_level, cursor, acc, counts, level,
                   filtered_logs, stdout, err, exit_status>>

\* process_logs: counts = count_logs_by_level(logs_list)
CountLogs ==
    /\ pc = "count"
    /\ counts' = count_logs_by_level(logs_list)
    /\ pc' = "display_counts"
    /\ UNCHANGED <<path_kind, file_lines, args_level, file_open, cursor, acc,
                   logs_list, loaded, level, filtered_logs, stdout, err,
                   exit_status>>

\* display_log_counts: the table, one row (coloured key, value) per dict item.
display_log_counts(c) ==
    [kind |-> "table",
     rows |-> [i \in DOMAIN c |->
                  [key |-> apply_color(colorize(c[i][1]), c[i][1]), value |-> c[i][2]]]]

DisplayLogCounts ==
    /\ pc = "display_counts"
    /\ stdout' = Append(stdout, display_log_counts(counts))
    /\ pc' = "if_level"
    /\ UNCHANGED <<path_kind, file_lines, args_level, file_open, cursor, acc,
                   logs_list, loaded, counts, level, filtered_logs, err,
                   exit_status>>

\* Variant: `if level is not None:`
if_level_is_not_none(v) == v.some

\* process_logs: the condition of `if level:`
if_level(v) == truthy(v)

\* process_logs: `if level:` is false, the function returns
SkipFilter ==
    /\ pc = "if_level"
    /\ ~if_level(level)
    /\ pc' = "return"
    /\ UNCHANGED <<path_kind, file_lines, args_level, file_open, cursor, acc,
                   logs_list, loaded, counts, level, filtered_logs, stdout, err,
                   exit_status>>

\* process_logs: level = level.upper();
\*               filtered_logs = filter_logs_by_level(logs_list, level)
FilterLogs ==
    /\ pc = "if_level"
    /\ if_level(level)
    /\ level' = Some(upper(level.s))
    /\ filtered_logs' = filter_logs_by_level(logs_list, level'.s)
    /\ pc' = IF filtered_logs' # <<>> THEN "display_filtered" ELSE "no_logs"
    /\ UNCHANGED <<path_kind, file_lines, args_level, file_open, cursor, acc,
                   logs_list, loaded, counts, stdout, err, exit_status>>

\* f"{log['date']} {log['time']} - {log['msg']}"
detail_text(log) == log.date \o <<SP>> \o log.time \o <<SP, "-", SP>> \o log.msg

\* display_filtered_logs: the header line, then one line per log.
display_filtered_logs(logs, lv) ==
    <<[kind |-> "header", level |-> apply_color(colorize(lv), lv)]>>
    \o [i \in DOMAIN logs |-> [kind |-> "detail", text |-> detail_text(logs[i])]]

DisplayFilteredLogs ==
    /\ pc = "display_filtered"
    /\ stdout' = stdout \o display_filtered_logs(filtered_logs, level.s)
    /\ pc' = "return"
    /\ UNCHANGED <<path_kind, file_lines, args_level, file_open, cursor, acc,
                   logs_list, loaded, counts, level, filtered_logs, err,
                   exit_status>>

\* process_logs: level = colorize(level)(level);
\*               print(f"No logs for level '{level}' or invalid value entered")
NoLogs ==
    /\ pc = "no_logs"
    /\ level' = Some(apply_color(colorize(level.s), level.s))
    /\ stdout' = Append(stdout, [kind |-> "no_logs", level |-> level'.s])
    /\ pc' = "return"
    /\ UNCHANGED <<path_kind, file_lines, args_level, file_open, cursor, acc,
                   logs_list, loaded, counts, filtered_logs, err, exit_status>>

\* main: the except clause that catches e, by its type.
error_prefix(e) ==
    IF e.type = "FileNotFoundError" THEN "[Error] resolving the path: "
    ELSE IF e.type = "ValueError" THEN "[Error] processing the log file: "
    ELSE "An unexpected error occurred: "

\* main: except ... as e: print(f"...: {e}")
HandleError ==
    /\ pc = "except"
    /\ stdout' = Append(stdout, [kind |-> "error", prefix |-> error_prefix(err),
                                 e |-> err.args])
    /\ pc' = "return"
    /\ UNCHANGED <<path_kind, file_lines, args_level, file_open, cursor, acc,
                   logs_list, loaded, counts, level, filtered_logs, err,
                   exit_status>>

\* Variant: a caught exception ends the process with status 1.
exit_code_failing(e) == IF e = NoError THEN 0 ELSE 1

\* main returns normally, whether or not an except clause ran, and the
\* interpreter exits with status 0.
exit_code(e) == 0

\* main() returns; the script ends
Return ==
    /\ pc = "return"
    /\ exit_status' = <<exit_code(err)>>
    /\ pc' = "done"
    /\ UNCHANGED <<path_kind, file_lines, args_level, file_open, cursor, acc,
                   logs_list, loaded, counts, level, filtered_logs, stdout, err>>

Next ==
    \/ ValidatePath
    \/ OpenFile
    \/ ReadLine
    \/ CloseFile
    \/ CountLogs
    \/ DisplayLogCounts
    \/ SkipFilter
    \/ FilterLogs
    \/ DisplayFilteredLogs
    \/ NoLogs
    \/ HandleError
    \/ Return

Spec == Init /\ [][Next]_vars

----------------------------------------------------------------------------
(* Vocabulary of the properties *)

SpacesOf(s) == {i \in DOMAIN s : s[i] = SP}

SpaceCount(s) == Cardinality(SpacesOf(s))

\* The text parse_log_line receives for line k of the file.
Stripped(k) == strip(file_lines[k])

Malformed(k) == SpaceCount(Stripped(k)) < 3

\* The run failed inside load_logs, on the line the cursor has just consumed.
ParseFailed == err.type = "ValueError" /\ cursor > 0

\* process_logs is past count_logs_by_level.
Counted == pc \in {"display_counts", "if_level", "display_filtered", "no_logs"}
           \/ (pc \in {"return", "done"} /\ loaded)

\* `line` is d + " " + t + " " + L + " " + m with the three separators at
\* positions i < j < n, no space inside d, t and L, and m not empty.
HasForm(line, i, j, n) ==
    /\ i < j /\ j < n /\ n < Len(line)
    /\ line[i] = SP /\ line[j] = SP /\ line[n] = SP
    /\ \A q \in 1..(n - 1) : line[q] = SP => q \in {i, j}

FormRecord(line, i, j, n) ==
    [date      |-> SubSeq(line, 1, i - 1),
     time      |-> SubSeq(line, i + 1, j - 1),
     log_level |-> SubSeq(line, j + 1, n - 1),
     msg       |-> SubSeq(line, n + 1, Len(line))]

----------------------------------------------------------------------------
(* C1: every line d + " " + t + " " + L + " " + m (d, t, L without a space,  *)
(* m not empty) is parsed into date = d, time = t, log_level = L, msg = m:   *)
(* only the first three spaces split, later spaces stay in the message.      *)
(* Checked while load_logs runs and when it has returned, on each record the *)
(* comprehension has produced against the stripped line it was produced      *)
(* from, and, when the file is opened, on every raw line of the file.        *)
C1_ParseWellFormed ==
    /\ pc \in {"read", "count"} =>
          \A k \in DOMAIN acc :
              LET line == Stripped(k)
                  spaces == SpacesOf(line)
              IN  \A i \in spaces : \A j \in {x \in spaces : x > i} :
                      \A n \in {x \in spaces : x > j} :
                          HasForm(line, i, j, n) => acc[k] = FormRecord(line, i, j, n)
    /\ pc = "count" => logs_list = acc
    /\ pc = "open" =>
          \A k \in DOMAIN file_lines :
              LET line == file_lines[k]
                  spaces == SpacesOf(line)
              IN  \A i \in spaces : \A j \in {x \in spaces : x > i} :
                      \A n \in {x \in spaces : x > j} :
                          HasForm(line, i, j, n)
                              => /\ ~parse_raises(line)
                                 /\ parse_log_line(line) = FormRecord(line, i, j, n)

\* A loaded record whose message kept a space.
C1_Witness ==
    /\ loaded
    /\ \E k \in DOMAIN logs_list :
          /\ \E q \in DOMAIN logs_list[k].msg : logs_list[k].msg[q] = SP
          /\ \E i, j, n \in SpacesOf(Stripped(k)) : HasForm(Stripped(k), i, j, n)

----------------------------------------------------------------------------
(* C2: a line with fewer than three spaces makes parse_log_line raise;       *)
(* load_logs over a file holding such a line fails at the first one, in file *)
(* order, and binds no list at all; no record of a store comes from a line   *)
(* with fewer than three spaces.                                             *)
C2_MalformedAbortsLoad ==
    /\ \A k \in DOMAIN file_lines : Malformed(k) => parse_raises(Stripped(k))
    /\ pc = "read" => Len(acc) = cursor
    /\ \A k \in DOMAIN acc :
          /\ ~Malformed(k)
          /\ SpaceCount(file_lines[k]) >= 3
    /\ loaded =>
          /\ logs_list = acc
          /\ Len(logs_list) = Len(file_lines)
          /\ \A k \in DOMAIN file_lines : SpaceCount(file_lines[k]) >= 3
    /\ ParseFailed =>
          /\ Malformed(cursor)
          /\ \A k \in 1..(cursor - 1) : ~Malformed(k)
          /\ ~loaded /\ logs_list = <<>> /\ acc = <<>>
    /\ (pc = "done" /\ \E k \in DOMAIN file_lines : SpaceCount(file_lines[k]) < 3)
          => ParseFailed /\ ~loaded

\* The load failed on the second line, after a well-formed first line.
C2_Witness ==
    /\ pc = "done"
    /\ ParseFailed
    /\ cursor = 2
    /\ SpaceCount(file_lines[2]) < 3

----------------------------------------------------------------------------
(* C3: count_logs_by_level returns a mapping whose counts sum to the number  *)
(* of records, whose keys are exactly the distinct log_level strings of the  *)
(* list, compared verbatim (no case folding), each with a count of at least  *)
(* 1; the empty list yields the empty mapping.                               *)
RECURSIVE SumValues(_)
SumValues(c) == IF c = <<>> THEN 0 ELSE Head(c)[2] + SumValues(Tail(c))

C3_CountsPartitionStore ==
    Counted =>
        /\ SumValues(counts) = Len(logs_list)
        /\ {counts[i][1] : i \in DOMAIN counts}
              = {logs_list[k].log_level : k \in DOMAIN logs_list}
        /\ \A i, j \in DOMAIN counts : counts[i][1] = counts[j][1] => i = j
        /\ \A i \in DOMAIN counts :
              /\ counts[i][2] >= 1
              /\ counts[i][2] =
                    Cardinality({k \in DOMAIN logs_list :
                                    logs_list[k].log_level = counts[i][1]})
        /\ (logs_list = <<>> => counts = <<>>)

\* 'error' and 'ERROR' are counted under two keys.
C3_Witness ==
    /\ Counted
    /\ \E i, j \in DOMAIN counts :
          counts[i][1] = lower_error /\ counts[j][1] = ERROR

----------------------------------------------------------------------------
(* Filtering *)

\* process_logs has just run its filter for the request args_level.
Filtered == pc \in {"display_filtered", "no_logs"}

\* The subsequence of `logs`, in order, at the positions in idx.
IsSubsequenceAt(sub, logs, idx) ==
    /\ Len(sub) = Cardinality(idx)
    /\ \A k \in idx : sub[Cardinality({q \in idx : q <= k})] = logs[k]

----------------------------------------------------------------------------
(* Exit status *)

\* The file is not found, is empty, or holds a malformed line.
RunFails ==
    \/ path_kind = "missing"
    \/ (path_kind = "file" /\ file_lines = <<>>)
    \/ \E k \in DOMAIN file_lines : Malformed(k)

ErrorLines == {i \in DOMAIN stdout : stdout[i].kind = "error"}

(* C5 as stated: a run ends with a non-zero exit status, after one error     *)
(* line, whenever the file is not found, is empty or has a malformed line,   *)
(* and with exit status zero in every other run.                             *)
C5_Original ==
    pc = "done" =>
        /\ RunFails => (exit_status # <<0>> /\ Cardinality(ErrorLines) = 1)
        /\ ~RunFails => exit_status = <<0>>

(* C5 amended: a run prints one user-facing error line whenever the file is  *)
(* not found, is empty or has a malformed line, and ends with exit status    *)
(* zero in every run, those runs included.                                   *)
C5_Amended ==
    pc = "done" =>
        /\ exit_status = <<0>>
        /\ RunFails => (Cardinality(ErrorLines) = 1 /\ Len(stdout) = 1)

\* A run that failed on a malformed line and exited with status 0.
C5_Witness ==
    /\ pc = "done"
    /\ ParseFailed
    /\ exit_status = <<0>>

----------------------------------------------------------------------------
(* Colours *)

\* The fixed table: INFO cyan, DEBUG blue, ERROR red, WARNING yellow, white otherwise.
TableColour(token) ==
    CASE token = INFO    -> "Fore.CYAN"
      [] token = DEBUG   -> "Fore.BLUE"
      [] token = ERROR   -> "Fore.RED"
      [] token = WARNING -> "Fore.YELLOW"
      [] OTHER           -> "Fore.WHITE"

\* A coloured text is the colour code, the brightness code, the token, the reset code.
ColourOf(text) == text[1]
TokenOf(text) == SubSeq(text, 3, Len(text) - 1)

\* Every coloured level token on the output.
ColouredTokens ==
    UNION { IF stdout[i].kind = "table"
            THEN {stdout[i].rows[r].key : r \in DOMAIN stdout[i].rows}
            ELSE IF stdout[i].kind \in {"header", "no_logs"}
            THEN {stdout[i].level}
            ELSE {} : i \in DOMAIN stdout }

----------------------------------------------------------------------------
(* Output order *)

\* process_logs returned without raising and main has returned.
Succeeded == pc = "done" /\ loaded

\* What follows the table when the filter branch is taken: the header and one
\* line 'date time - message' per matching record, or one no-match line.
IsFilterOutput(out) ==
    IF filtered_logs # <<>>
    THEN /\ Len(out) = 1 + Len(filtered_logs)
         /\ out[1].kind = "header"
         /\ \A q \in DOMAIN filtered_logs :
               /\ out[q + 1].kind = "detail"
               /\ out[q + 1].text =
                     filtered_logs[q].date \o <<" ">> \o filtered_logs[q].time
                         \o <<" ", "-", " ">> \o filtered_logs[q].msg
    ELSE /\ Len(out) = 1
         /\ out[1].kind = "no_logs"

(* C7 as stated: in every successful run the table is output first; the      *)
(* detail lines of the matching records, in file order, or else a single     *)
(* no-match message follow it if and only if a level argument was supplied;  *)
(* nothing is raised, and nothing follows the table when no level was given. *)
C7_Original ==
    Succeeded =>
        /\ stdout # <<>> /\ stdout[1].kind = "table"
        /\ err = NoError
        /\ IF args_level.some
           THEN IsFilterOutput(Tail(stdout))
           ELSE Tail(stdout) = <<>>

(* C7 amended: as C7, with "a level argument was supplied" replaced by "a    *)
(* non-empty level argument was supplied": an empty level string is treated  *)
(* as no level, and nothing follows the table. The detail lines come after   *)
(* one header line naming the level.                                         *)
C7_Amended ==
    Succeeded =>
        /\ stdout # <<>> /\ stdout[1].kind = "table"
        /\ err = NoError
        /\ exit_status = <<0>>
        /\ IF args_level.some /\ args_level.s # <<>>
           THEN IsFilterOutput(Tail(stdout))
           ELSE Tail(stdout) = <<>>

\* A successful run with the level '' prints the table and nothing else.
C7_Witness ==
    /\ Succeeded
    /\ args_level = Some(<<>>)
    /\ Len(stdout) = 1
    /\ logs_list # <<>>

----------------------------------------------------------------------------
(* The malformed-line error *)

(* C8 as stated: the error raised for a malformed line identifies exactly    *)
(* that line's text: no other malformed line produces the same error value.  *)
C8_Original ==
    ParseFailed =>
        \A l \in RawLines :
            (parse_raises(strip(l)) /\ parse_error(strip(l)) = err)
                => strip(l) = Stripped(cursor)

(* C8 amended: the error raised for a malformed line is a ValueError with    *)
(* one fixed message, the same for every malformed line; it does not carry   *)
(* the line, and the error line printed shows that message only.             *)
C8_Amended ==
    ParseFailed =>
        /\ err = [type |-> "ValueError",
                  args |-> <<"Incorrect log line format, expected at least three spaces to separate the components.">>]
        /\ \A l \in RawLines : parse_raises(strip(l)) => parse_error(strip(l)) = err
        /\ pc \in {"return", "done"} =>
              stdout = <<[kind |-> "error",
                          prefix |-> "[Error] processing the log file: ",
                          e |-> err.args]>>

\* The run failed on a blank second line.
C8_Witness ==
    /\ pc = "done"
    /\ ParseFailed
    /\ cursor = 2
    /\ Stripped(2) = <<>>

----------------------------------------------------------------------------
(* Empty file *)

EmptyFile == path_kind = "file" /\ file_lines = <<>>

(* C9 as stated: on an empty file the run produces an empty store and an     *)
(* empty count mapping (a table with no rows), and any supplied filter       *)
(* request reports 'no matches'.                                             *)
C9_Original ==
    (EmptyFile /\ pc = "done") =>
        /\ loaded /\ logs_list = <<>> /\ counts = <<>>
        /\ \E i \in DOMAIN stdout : stdout[i].kind = "table" /\ stdout[i].rows = <<>>
        /\ args_level.some => \E i \in DOMAIN stdout : stdout[i].kind = "no_logs"

(* C9 amended: on an empty file validate_path raises ValueError("The file is *)
(* empty.") before the file is opened: the run prints that one error line and *)
(* produces no store, no count table and no filter output.                   *)
C9_Amended ==
    EmptyFile =>
        /\ ~file_open /\ ~loaded /\ cursor = 0
        /\ pc \in {"validate_path", "except", "return", "done"}
        /\ pc # "validate_path" =>
              err = [type |-> "ValueError", args |-> <<"The file is empty.">>]
        /\ pc \in {"return", "done"} =>
              stdout = <<[kind |-> "error",
                          prefix |-> "[Error] processing the log file: ",
                          e |-> <<"The file is empty.">>]>>

\* The run on an empty file, with a level requested, has ended.
C9_Witness ==
    /\ EmptyFile
    /\ pc = "done"
    /\ args_level = Some(ERROR)

----------------------------------------------------------------------------
(* Fail-fast, ordered pipeline *)

\* Something other than an error line has been printed.
PrintedResults == \E i \in DOMAIN stdout : stdout[i].kind # "error"

(* C10: all lines are read and parsed, and the file is closed, before any    *)
(* counting, filtering or output happens; a run whose file holds a malformed *)
(* line, at whatever position, never outputs the table or a detail line,     *)
(* only the error line.                                                      *)
C10_FailFastOrdered ==
    /\ (Counted \/ pc = "count" \/ PrintedResults \/ counts # <<>> \/ filtered_logs # <<>>)
          => /\ ~file_open
             /\ cursor = Len(file_lines)
             /\ loaded
             /\ Len(logs_list) = Len(file_lines)
    /\ (\E k \in DOMAIN file_lines : Malformed(k))
          => /\ ~PrintedResults
             /\ ~Counted /\ pc # "count"
             /\ pc = "done" => (Len(stdout) = 1 /\ stdout[1].kind = "error")
    /\ file_open => pc = "read"

\* A run whose middle line alone is malformed has ended with the error line alone.
C10_Witness ==
    /\ pc = "done"
    /\ Len(file_lines) = 3
    /\ ~Malformed(1) /\ Malformed(2) /\ ~Malformed(3)
    /\ Len(stdout) = 1
    /\ stdout[1].kind = "error"

====
